---- MODULE Spec2Model ----
(***************************************************************************)
(* The four step-sequencer sketches of ongaku_electronics_lab as one state *)
(* machine.  The variable `variant' selects the sketch:                    *)
(*   "basic"  four_step_sequencer.ino             (one voice, fixed tempo) *)
(*   "multi"  four_step_multi_voice_sequencer     (4 voices, fixed tempo)  *)
(*   "midi"   four_step_multi_voice_sequencer_midi_out  (DIN MIDI + LED)   *)
(*   "swing"  four_step_multi_voice_sequencer_tempo_swing (pots, swing)    *)
(* One step of the model ends with one pass of loop().  millis() is a 32-bit counter; TLC's    *)
(* integers stop at 2^31-1, so a uint32_t is kept as two 16-bit limbs.     *)
(***************************************************************************)
EXTENDS Integers, Sequences, FiniteSets, TLC

VARIABLES
  variant,        \* which sketch runs
  now,            \* millis() at the last pass of loop()
  pin,            \* level of each button pin (TRUE = HIGH = released)
  tempoRaw,       \* analogRead(TEMPO_POT), swing sketch
  swingRaw,       \* analogRead(SWING_POT), swing sketch
  btn,            \* Btn structs: stable, lastRead, lastChange
  pattern,        \* pattern[voice][step]  (stepEnabled[step] in "basic")
  currentVoice,
  isPlaying,
  stepIndex,
  stepIntervalMs,
  nextStepAt,
  noteActive,
  noteOffAt,
  txLed,          \* playback indicator (TX_LED_PIN), "midi" sketch
  stepLed,        \* the four step LEDs
  env,            \* the bounds this behaviour is explored under (see Profiles)
  elapsed,        \* ms the sketch has run, the idle stretch not counted
  moves,          \* input changes so far (pin or pot)
  lates,          \* late passes so far
  waits,          \* passes at which a paced environment could have changed an input and did not
  emitted,        \* MIDI messages sent by the last pass, in order
  balance,        \* per voice: note-ons sent minus note-offs sent
  onAt,           \* per voice: millis() of its last note-on
  prompt,         \* per voice: every pass since its note-on came <= 1 ms after the previous one
  stepEvents,     \* step-due events so far
  toggles,        \* per pattern cell: committed presses of its step button while its voice was selected
  last            \* what the last pass did (see LoopPass)

vars == << variant, now, pin, tempoRaw, swingRaw, btn, pattern, currentVoice,
           isPlaying, stepIndex, stepIntervalMs, nextStepAt, noteActive,
           noteOffAt, txLed, stepLed, env, elapsed, moves, lates, waits, emitted,
           balance, onAt, prompt, stepEvents, toggles, last >>

-----------------------------------------------------------------------------
(* Program constants *)

HIGH == TRUE
LOW  == FALSE

VOICE_COUNT      == 4
STEP_COUNT       == 4
NOTE_VELOCITY    == 110
GATE_MS_BASE     == 120
GATE_MS          == 60
FIXED_BPM        == 127
DEBOUNCE_STEP_MS == 20
DEBOUNCE_PLAY_MS == 30
DEBOUNCE_INST_MS == 30
GATE_MARGIN_MS   == 10
DRUM_NOTE        == 36
ADC_MAX          == 1023
ADC_CENTER       == 512
MAX_BPM          == 240

Variants == {"basic", "multi", "midi", "swing"}
FixedTempo(va) == va # "swing"

VoiceCount(va) == IF va = "basic" THEN 1 ELSE VOICE_COUNT
Voices(va)     == 0 .. VoiceCount(va) - 1
Steps          == 0 .. STEP_COUNT - 1

VOICE_NOTES(va) ==
  CASE va = "basic" -> << DRUM_NOTE >>
    [] va = "midi"  -> << 60, 65, 72, 75 >>
    [] OTHER        -> << 36, 38, 42, 49 >>

NoteOf(va, v) == VOICE_NOTES(va)[v + 1]

MIDI_CHANNEL(va) == IF va \in {"basic", "multi"} THEN 9 ELSE 0

(* The Btn objects, as indices into btn: 0..3 are stepBtn[0..3], then the
   play button, then the instrument-select button. *)
playBtn == 4
instBtn == 5
Buttons(va) == IF va = "basic" THEN 0 .. playBtn ELSE 0 .. instBtn

Debounce(b) ==
  CASE b = playBtn -> DEBOUNCE_PLAY_MS
    [] b = instBtn -> DEBOUNCE_INST_MS
    [] OTHER        -> DEBOUNCE_STEP_MS

-----------------------------------------------------------------------------
(* uint32_t arithmetic on limbs [hi, lo], value = hi * 2^16 + lo *)

Limb == 2 ^ 16

U32(n) == [hi |-> n \div Limb, lo |-> n % Limb]

\* a + n (mod 2^32), n a natural below 2^31 - 2^16
AddMs(a, n) ==
  LET s == a.lo + n
  IN  [hi |-> (a.hi + (s \div Limb)) % Limb, lo |-> s % Limb]

\* a - b (mod 2^32)
SubU32(a, b) ==
  LET l      == a.lo - b.lo
      borrow == IF l < 0 THEN 1 ELSE 0
  IN  [hi |-> (a.hi - b.hi - borrow + Limb) % Limb, lo |-> (l + Limb) % Limb]

\* unsigned a > n, n below 2^16
GtMs(a, n) == a.hi > 0 \/ a.lo > n

\* unsigned a >= b
GeU32(a, b) == a.hi > b.hi \/ (a.hi = b.hi /\ a.lo >= b.lo)

\* (int32_t)a >= 0
Int32NonNeg(a) == a.hi < Limb \div 2

\* the value of a as a number when it is below 2^31 - 1, else 2^31 - 1
Clamp31(a) == IF a.hi < Limb \div 2 - 1 THEN a.hi * Limb + a.lo ELSE 2147483647

-----------------------------------------------------------------------------
(* Debouncer: pollFalling / pollEdgeFalling *)

\* b.lastChange after the raw-change test of a poll reading r at time t
RawChangeStamp(b, r, t) == IF r # b.lastRead THEN t ELSE b.lastChange

\* fault injection for C6: a poll that commits without waiting for the window
Commits_NoWindow(b, r, t, debounceMs) == r # b.stable

\* the poll commits r as the new stable level
Commits(b, r, t, debounceMs) ==
  /\ GtMs(SubU32(t, RawChangeStamp(b, r, t)), debounceMs)
  /\ r # b.stable

\* fault injection for C7: a poll that also reports the rising edge
Falling_AnyChange(stable, r) == stable # r

\* the value of `falling' when the poll commits
Falling(stable, r) == stable = HIGH /\ r = LOW

\* fault injection for C23: a poll that reports the level, not the edge: true
\* whenever it reads LOW past the window
PollEdge_Level(b, r, t, debounceMs) ==
  GtMs(SubU32(t, RawChangeStamp(b, r, t)), debounceMs) /\ r = LOW

\* the poll's return value
PollEdge(b, r, t, debounceMs) ==
  Commits(b, r, t, debounceMs) /\ Falling(b.stable, r)

\* the Btn after the poll
PollBtn(b, r, t, debounceMs) ==
  [ stable     |-> IF Commits(b, r, t, debounceMs) THEN r ELSE b.stable,
    lastRead   |-> r,
    lastChange |-> RawChangeStamp(b, r, t) ]

-----------------------------------------------------------------------------
(* Tempo, swing and gate arithmetic *)

\* 60000UL / FIXED_BPM
FixedStepInterval == 60000 \div FIXED_BPM

\* bpm <= 0.5f, bpm = (tempoRaw / 1023.0f) * 240.0f
TempoStopped(tr) == tr * MAX_BPM * 2 <= ADC_MAX

\* (uint32_t)(60000.0f / bpm)
PotStepInterval(tr) == (60000 * ADC_MAX) \div (MAX_BPM * tr)

\* C truncation of n / d towards zero, d > 0
TruncDiv(n, d) == IF n >= 0 THEN n \div d ELSE -((-n) \div d)

\* MAX_SWING_RATIO = 0.6f as SwingNum / SwingDen
SwingNum == 6
SwingDen == 10

\* offset = (int32_t)(base * swingRatio), swingRatio = ((swingRaw - 512) / 512.0f) * 0.6f
SwingOffset(base, sr) ==
  TruncDiv(base * (sr - ADC_CENTER) * SwingNum, ADC_CENTER * SwingDen)

\* fault injection for C18: the offset added after even steps, taken off after odd
SwingDelta_Swapped(base, sr, step) ==
  LET offset == SwingOffset(base, sr)
      delta  == IF step % 2 = 0 THEN base + offset ELSE base - offset
  IN  IF delta < 1 THEN 1 ELSE delta

\* fault injection for C11: the offset taken off after every step
SwingDelta_NoParity(base, sr, step) ==
  LET delta == base - SwingOffset(base, sr)
  IN  IF delta < 1 THEN 1 ELSE delta

\* delta armed after playing step `step'
SwingDelta(base, sr, step) ==
  LET offset == SwingOffset(base, sr)
      delta  == IF step % 2 = 0 THEN base - offset ELSE base + offset
  IN  IF delta < 1 THEN 1 ELSE delta

\* the uint16_t gate of a note-on in a fixed-tempo sketch built with the base
\* gate `gate' (GATE_MS_BASE) and the step interval `interval'
GateClamp(va, gate, interval) ==
  CASE va = "basic" -> IF gate > interval
                         THEN (interval - GATE_MARGIN_MS) % Limb
                         ELSE gate
    [] OTHER        -> IF gate > interval
                         THEN (IF interval > GATE_MARGIN_MS
                                 THEN interval - GATE_MARGIN_MS
                                 ELSE interval)
                         ELSE gate

\* the uint16_t gate of a note-on
GateMs(va, interval) ==
  IF va = "swing" THEN GATE_MS ELSE GateClamp(va, GATE_MS_BASE, interval)

\* the deadline test: (int32_t)(now - deadline) >= 0 in the fixed-tempo
\* sketches, now >= deadline in the swing sketch
DeadlineReached(va, t, deadline) ==
  IF va = "swing" THEN GeU32(t, deadline)
                  ELSE Int32NonNeg(SubU32(t, deadline))

\* fault injection for C8: a step advance that skips a step
NextStep_Skip(s) == (s + 2) % STEP_COUNT

\* stepIndex = (stepIndex + 1) & 0x03
NextStep(s) == (s + 1) % STEP_COUNT

\* currentVoice = (currentVoice + 1) % VOICE_COUNT
NextVoice(v) == (v + 1) % VOICE_COUNT

-----------------------------------------------------------------------------
(* One pass of loop() at time t, reading pin levels r and pot values tr, sr *)

\* the voices in S in increasing order, as a sequence
InOrder(va, S) ==
  SelectSeq([i \in 1 .. VoiceCount(va) |-> i - 1], LAMBDA v : v \in S)

NoteOnMsg(va, v)  == [kind |-> "on",  voice |-> v, note |-> NoteOf(va, v),
                      vel |-> NOTE_VELOCITY, ch |-> MIDI_CHANNEL(va)]
NoteOffMsg(va, v) == [kind |-> "off", voice |-> v, note |-> NoteOf(va, v),
                      vel |-> 0, ch |-> MIDI_CHANNEL(va)]

\* handleInstrumentButton: the voice selected after an edge of the select button
SelectVoice(cv, edge) == IF edge THEN NextVoice(cv) ELSE cv

\* fault injection for C20: a press that flips the cell of every voice
TogglePattern_AllVoices(va, pat, cv, edges) ==
  [v \in Voices(va) |->
     [s \in Steps |-> IF edges[s] THEN ~pat[v][s] ELSE pat[v][s]]]

\* fault injection for C12: a press that sets the cell instead of flipping it
TogglePattern_Set(va, pat, cv, edges) ==
  [v \in Voices(va) |->
     [s \in Steps |-> (v = cv /\ edges[s]) \/ pat[v][s]]]

\* handleStepButtons: the pattern after the step-button edges
TogglePattern(va, pat, cv, edges) ==
  [v \in Voices(va) |->
     [s \in Steps |-> IF v = cv /\ edges[s] THEN ~pat[v][s] ELSE pat[v][s]]]

\* the step LEDs: refreshed for the new voice on a select edge, then the LED of
\* each toggled step rewritten
ShowLeds(leds, oldPat, newPat, cv, instEdge, edges) ==
  [s \in Steps |->
     IF edges[s] THEN newPat[cv][s]
     ELSE IF instEdge THEN oldPat[cv][s] ELSE leds[s]]

\* fault injection for C4: a stop branch that sends no note-off
FlushSet_NoFlush(va, active, playEdge, playingAfter) == {}

\* play toggle: the voices the stop branch sends a note-off for
FlushSet(va, active, playEdge, playingAfter) ==
  IF playEdge /\ ~playingAfter THEN {v \in Voices(va) : active[v]} ELSE {}

\* fault injection for C16: every sketch arms the step for the pass of the edge
ArmOnPlay_Immediate(va, next, t, interval, playEdge, playingAfter) ==
  IF playEdge THEN t ELSE next

\* play toggle: nextStepAt after the button handling
ArmOnPlay(va, next, t, interval, playEdge, playingAfter) ==
  CASE ~playEdge     -> next
    [] va = "swing"  -> t
    [] playingAfter  -> AddMs(t, interval)
    [] OTHER         -> next

\* fault injection for C22: the indicator cleared on a start only
IndicatorOnPlay_StartOnly(led, playEdge, playingAfter) ==
  IF playEdge /\ playingAfter THEN LOW ELSE led

\* play toggle: the level of TX_LED_PIN after the button handling
IndicatorOnPlay(led, playEdge, playingAfter) ==
  IF playEdge THEN LOW ELSE led

\* fault injection for C17: no sketch resets the step index on the edge
StepOnPlay_Keep(va, step, playEdge) == step

\* play toggle: stepIndex after the button handling
StepOnPlay(va, step, playEdge) ==
  IF playEdge /\ va = "swing" THEN 0 ELSE step

\* fault injection for C19: the early return taken only at a reading of 0
SkipsScheduler_OnlyZero(va, tr) == va = "swing" /\ tr = 0

\* the swing sketch returns before the note-off loop when the tempo pot is at rest
SkipsScheduler(va, tr) == va = "swing" /\ TempoStopped(tr)

\* the note-off loop: voices whose gate the pass ends
ExpiredSet(va, t, active, offAt, tr) ==
  IF SkipsScheduler(va, tr) THEN {}
  ELSE {v \in Voices(va) : active[v] /\ DeadlineReached(va, t, offAt[v])}

\* fault injection for C15: a step-advance test that does not look at isPlaying
StepDue_AnyTime(va, t, playing, next, tr) ==
  /\ ~SkipsScheduler(va, tr)
  /\ DeadlineReached(va, t, next)

\* the step-advance test
StepDue(va, t, playing, next, tr) ==
  /\ ~SkipsScheduler(va, tr)
  /\ playing
  /\ DeadlineReached(va, t, next)

\* fault injection for C10: a note-on loop that ignores the pattern
TriggeredSet_All(va, pat, s) == Voices(va)

\* the note-on loop: voices triggered at step s
TriggeredSet(va, pat, s) == {v \in Voices(va) : pat[v][s]}

\* nextStepAt armed by a step event
ArmNext(va, t, interval, sr, step) ==
  IF va = "swing" THEN AddMs(t, SwingDelta(interval, sr, step))
                  ELSE AddMs(t, interval)

Pass(t, r, tr, sr) ==
  LET va        == variant
      B         == Buttons(va)
      edge      == [b \in 0 .. instBtn |->
                      b \in B /\ PollEdge(btn[b], r[b], t, Debounce(b))]
      commit    == {b \in B : Commits(btn[b], r[b], t, Debounce(b))}
      btn1      == [b \in B |-> PollBtn(btn[b], r[b], t, Debounce(b))]
      \* buttons
      cv1       == SelectVoice(currentVoice, edge[instBtn])
      pat1      == TogglePattern(va, pattern, cv1, edge)
      leds1     == ShowLeds(stepLed, pattern, pat1, cv1, edge[instBtn], edge)
      playEdge  == edge[playBtn]
      playing1  == IF playEdge THEN ~isPlaying ELSE isPlaying
      step1     == StepOnPlay(va, stepIndex, playEdge)
      next1     == ArmOnPlay(va, nextStepAt, t, stepIntervalMs, playEdge, playing1)
      flushed   == FlushSet(va, noteActive, playEdge, playing1)
      active1   == [v \in Voices(va) |-> noteActive[v] /\ v \notin flushed]
      led1      == IndicatorOnPlay(txLed, playEdge, playing1)
      \* scheduler
      skip      == SkipsScheduler(va, tr)
      interval1 == IF va = "swing" /\ ~skip THEN PotStepInterval(tr)
                                             ELSE stepIntervalMs
      expired   == ExpiredSet(va, t, active1, noteOffAt, tr)
      active2   == [v \in Voices(va) |-> active1[v] /\ v \notin expired]
      due       == StepDue(va, t, playing1, next1, tr)
      ons       == IF due THEN TriggeredSet(va, pat1, step1) ELSE {}
      gate      == GateMs(va, interval1)
  IN  [ btn            |-> btn1,
        pattern        |-> pat1,
        currentVoice   |-> cv1,
        stepLed        |-> leds1,
        isPlaying      |-> playing1,
        stepIndex      |-> IF due THEN NextStep(step1) ELSE step1,
        stepIntervalMs |-> interval1,
        nextStepAt     |-> IF due THEN ArmNext(va, t, interval1, sr, step1)
                                  ELSE next1,
        noteActive     |-> [v \in Voices(va) |-> active2[v] \/ v \in ons],
        noteOffAt      |-> [v \in Voices(va) |->
                              IF v \in ons THEN AddMs(t, gate) ELSE noteOffAt[v]],
        txLed          |-> IF due /\ va = "midi" THEN ~led1 ELSE led1,
        \* what the pass sent and did
        emitted        |-> [i \in 1 .. Cardinality(flushed) |-> NoteOffMsg(va, InOrder(va, flushed)[i])]
                           \o [i \in 1 .. Cardinality(expired) |-> NoteOffMsg(va, InOrder(va, expired)[i])]
                           \o [i \in 1 .. Cardinality(ons) |-> NoteOnMsg(va, InOrder(va, ons)[i])],
        flushed        |-> flushed,
        expired        |-> expired,
        ons            |-> ons,
        commit         |-> commit,
        edges          |-> {b \in B : edge[b]},
        due            |-> due,
        skip           |-> skip,
        stepTested     |-> playing1 /\ ~skip,
        stepDeadline   |-> next1,
        stepPlayed     |-> step1 ]

-----------------------------------------------------------------------------
(* Bounds of the model and the inputs the environment draws from *)

MaxMovesBounce == 3      \* input changes in a behaviour of the bounce profile
MaxMovesChord  == 7      \* presses in a behaviour of the chord profile
MaxMovesUndo   == 5      \* presses in a behaviour of the undo profile
MaxMovesRest   == 4      \* moves in a behaviour of the rest profile
MaxMovesRun    == 2      \* presses in a behaviour of the run and late profiles
MaxMovesPots   == 3      \* input changes in a behaviour of the pots profile
HorizonShort   == 900    \* running time explored with many input changes (ms)
HorizonLate    == 1100   \* running time explored with late passes (ms)
HorizonLong    == 2000   \* running time explored with few input changes (ms)
MaxLate        == 1      \* late passes in a behaviour of the late profile
MaxWaits       == 1      \* times a paced environment lets a chance to change an input pass
MaxBalance     == 3      \* unmatched note-ons of one voice at which exploration stops
MaxStepEvents  == 8      \* step-due events at which exploration stops
MaxQuiet       == 500    \* longest run of uneventful passes taken with the pass that ends it (ms)

\* the presses that set the first two steps of two voices, start, and stop
ChordScript == << 0, 1, instBtn, 0, 1, playBtn, playBtn >>

\* the presses that toggle the first step twice, start, stop and start again
UndoScript == << 0, 0, playBtn, playBtn, playBtn >>

\* a script entry that is not a press: the tempo pot is turned to rest
ToRest == -1

\* the highest reading of the tempo pot that is at rest (0.47 BPM)
RestTop == 2

\* the presses that set the second step and start, the tempo pot turned to
\* rest, and the press that stops
RestScript == << 1, playBtn, ToRest, playBtn >>

\* the presses that set the first step and start
LapScript == << 0, playBtn >>

\* The environment is explored in profiles, each bounding what it does in one
\* behaviour: the buttons it works, whether it turns the pots, whether it is
\* paced (clean clicks made as soon as can be, but for MaxWaits times; see
\* InputMoves and Tick) or changes inputs at any time, how many moves (input
\* changes; presses when paced) and late passes it makes, for how
\* long the sketch runs, and whether the sketch may first be left idle until
\* millis() is about to wrap. A profile with a script presses the buttons in the
\* order of the script, over and again, and is free in the timing alone.
Profiles(va) ==
  { [name |-> "bounce", pins |-> {0, playBtn}, pots |-> FALSE, paced |-> FALSE,
     idle |-> FALSE, moves |-> MaxMovesBounce, script |-> << >>, lates |-> 0, horizon |-> HorizonShort],
    [name |-> "run", pins |-> Buttons(va), pots |-> FALSE, paced |-> TRUE,
     idle |-> FALSE, moves |-> MaxMovesRun, script |-> << >>, lates |-> 0,
     horizon |-> HorizonLong],
    [name |-> "wrap", pins |-> {0, 1, playBtn}, pots |-> FALSE, paced |-> TRUE,
     idle |-> TRUE, moves |-> MaxMovesRun, script |-> << >>, lates |-> 0,
     horizon |-> HorizonShort],
    [name |-> "late", pins |-> {0, playBtn}, pots |-> FALSE, paced |-> TRUE,
     idle |-> FALSE, moves |-> MaxMovesRun, script |-> << >>, lates |-> MaxLate,
     horizon |-> HorizonLate] }
  \cup
  (IF va = "swing"
     THEN { [name |-> "pots", pins |-> {0, playBtn}, pots |-> TRUE, paced |-> FALSE,
             idle |-> FALSE, moves |-> MaxMovesPots, script |-> << >>,
             lates |-> 0, horizon |-> HorizonShort] }
     ELSE {})
  \cup
  (IF va # "basic"
     THEN { [name |-> "chord", pins |-> {0, 1, playBtn, instBtn}, pots |-> FALSE,
             paced |-> TRUE, idle |-> FALSE, moves |-> MaxMovesChord,
             script |-> ChordScript, lates |-> 0, horizon |-> HorizonLong] }
     ELSE {})
  \cup
  (IF va = "swing"
     THEN { [name |-> "rest", pins |-> {1, playBtn}, pots |-> FALSE, paced |-> TRUE,
             idle |-> FALSE, moves |-> MaxMovesRest, script |-> RestScript,
             lates |-> 0, horizon |-> HorizonShort] }
     ELSE {})
  \cup
  { [name |-> "undo", pins |-> {0, playBtn}, pots |-> FALSE, paced |-> TRUE,
     idle |-> FALSE, moves |-> MaxMovesUndo, script |-> UndoScript, lates |-> 0,
     horizon |-> HorizonLong],
    [name |-> "lap", pins |-> {0, playBtn}, pots |-> FALSE, paced |-> TRUE,
     idle |-> TRUE, moves |-> MaxMovesRun, script |-> LapScript, lates |-> MaxLate,
     horizon |-> HorizonLate] }

\* spacing of a late pass (ms): longer than one step interval of the fixed-tempo
\* sketches, and longer than two
LateDts == {500, 1000}

\* positions of the tempo and swing pots
TempoRaws == {0, 1023}
SwingRaws == {0, 1023}

\* distance to the wrap of millis() at which an idle sketch is picked up again
NearWrap == {550}

-----------------------------------------------------------------------------
(* Initial state: the end of setup() *)

AllHigh(va) == [b \in Buttons(va) |-> HIGH]

\* pin levels at power-up: nothing pressed
BootPins(va) == {AllHigh(va)}

\* setup() reads the pin into stable/lastRead; the swing sketch assumes HIGH
BootBtn(va, level) ==
  [ stable     |-> IF va = "swing" THEN HIGH ELSE level,
    lastRead   |-> IF va = "swing" THEN HIGH ELSE level,
    lastChange |-> U32(0) ]

InitProgram ==
  /\ now = U32(0)
  /\ btn = [b \in Buttons(variant) |-> BootBtn(variant, pin[b])]
  /\ pattern = [v \in Voices(variant) |-> [s \in Steps |-> variant = "basic"]]
  /\ currentVoice = 0
  /\ isPlaying = FALSE
  /\ stepIndex = 0
  /\ stepIntervalMs = (IF variant = "swing" THEN 0 ELSE FixedStepInterval)
  /\ nextStepAt = (IF variant = "swing" THEN U32(0) ELSE U32(FixedStepInterval))
  /\ noteActive = [v \in Voices(variant) |-> FALSE]
  /\ noteOffAt = [v \in Voices(variant) |-> U32(0)]
  /\ txLed = LOW
  /\ stepLed = [s \in Steps |-> variant = "basic"]

InitHistory ==
  /\ elapsed = 0
  /\ moves = 0
  /\ lates = 0
  /\ waits = 0
  /\ emitted = << >>
  /\ balance = [v \in Voices(variant) |-> 0]
  /\ onAt = [v \in Voices(variant) |-> U32(0)]
  /\ prompt = [v \in Voices(variant) |-> TRUE]
  /\ stepEvents = 0
  /\ toggles = [v \in Voices(variant) |-> [s \in Steps |-> 0]]
  /\ last = [kind |-> "setup"]

\* the state after setup() in a behaviour explored under the profile e; where
\* the pots are not turned the tempo pot is at its top
InitUnder(e) ==
  /\ env = e
  /\ pin \in BootPins(variant)
  /\ tempoRaw \in (CASE variant # "swing" -> {0}
                    [] e.pots           -> TempoRaws
                    [] OTHER            -> {ADC_MAX})
  /\ swingRaw \in (IF variant = "swing" THEN SwingRaws ELSE {ADC_CENTER})
  /\ InitProgram
  /\ InitHistory

Init == variant \in Variants /\ \E e \in Profiles(variant) : InitUnder(e)

-----------------------------------------------------------------------------
(* Actions *)

\* a pass at time t with the inputs unchanged does nothing
QuietAt(t) ==
  /\ \A b \in Buttons(variant) : ~Commits(btn[b], pin[b], t, Debounce(b))
  /\ ExpiredSet(variant, t, noteActive, noteOffAt, tempoRaw) = {}
  /\ ~StepDue(variant, t, isPlaying, nextStepAt, tempoRaw)

\* the inputs are at rest: every poll reads the level it read before, and the
\* swing sketch recomputes the interval it already holds
InputsAtRest ==
  /\ \A b \in Buttons(variant) : pin[b] = btn[b].lastRead
  /\ (variant = "swing" /\ ~TempoStopped(tempoRaw))
        => stepIntervalMs = PotStepInterval(tempoRaw)

\* every button has settled at the level its pin is held at
Settled == \A b \in Buttons(variant) : pin[b] = btn[b].stable

\* The tests of QuietAt are threshold tests on t: with the inputs held, each can
\* change its answer only where t reaches a deadline, where t is half the
\* counter range past one (the signed test), where t reaches the stamp of a raw
\* change or leaves its debounce window, or where t wraps to 0.
SwitchTimes ==
  LET deadlines == {noteOffAt[v] : v \in Voices(variant)} \cup {nextStepAt}
      half      == [hi |-> Limb \div 2, lo |-> 0]
  IN  deadlines
      \cup {SubU32(x, half) : x \in deadlines}
      \cup {btn[b].lastChange : b \in Buttons(variant)}
      \cup {AddMs(btn[b].lastChange, Debounce(b) + 1) : b \in Buttons(variant)}
      \cup {U32(0)}

\* the passes of a run of d ms at which the answer of QuietAt can change
Critical(d) ==
  {k \in {1, d} \cup {Clamp31(SubU32(x, now)) : x \in SwitchTimes} : 1 <= k /\ k <= d}

\* every pass of a run of d ms is quiet
QuietThrough(d) == InputsAtRest /\ \A k \in Critical(d) : QuietAt(AddMs(now, k))

\* ms from now to each pending deadline
Pending ==
  {Clamp31(SubU32(noteOffAt[v], now)) : v \in {w \in Voices(variant) : noteActive[w]}}
  \cup (IF isPlaying THEN {Clamp31(SubU32(nextStepAt, now))} ELSE {})
  \cup {Debounce(b) + 1 - Clamp31(SubU32(now, btn[b].lastChange)) :
          b \in {c \in Buttons(variant) : pin[c] # btn[c].stable}}

\* the least element of a non-empty set of numbers
Least(S) == CHOOSE x \in S : \A y \in S : x <= y

\* ms to the next pending deadline that is more than a pass away
NextPending ==
  LET ahead == Pending \cap (2 .. MaxQuiet)
  IN  IF ahead = {} THEN {} ELSE {Least(ahead)}

\* The inputs a pass may read when one of them has changed since the last pass.
\* A paced environment makes clean clicks: it presses a button only when every
\* button is released and settled, and releases it once the press has been
\* committed, before it presses anything else; only the presses count as moves.
InputMoves ==
  LET pots == IF env.pots
                THEN {<<pin, tr, swingRaw>> : tr \in TempoRaws \ {tempoRaw}}
                     \cup {<<pin, tempoRaw, sr>> : sr \in SwingRaws \ {swingRaw}}
                ELSE {}
      flips(B) == {<<[pin EXCEPT ![b] = ~pin[b]], tempoRaw, swingRaw>> : b \in B}
      held == {b \in env.pins : pin[b] = LOW}
      next == IF env.script = << >>
                THEN env.pins
                ELSE {env.script[(moves % Len(env.script)) + 1]}
      rest == IF ToRest \in next THEN {<<pin, RestTop, swingRaw>>} ELSE {}
  IN  CASE env.paced /\ ~(Settled /\ InputsAtRest) -> {}
        [] env.paced /\ held # {}                  -> flips(held)
        [] moves < env.moves                       ->
             flips(next \cap Buttons(variant)) \cup rest \cup pots
        [] OTHER                                   -> {}

\* the input change is the release of a button in a paced behaviour
PacedRelease(in) == env.paced /\ \E b \in env.pins : pin[b] = LOW /\ in[1][b] = HIGH

\* one pass of loop() at time t = now + dt reading the inputs in; gap tells
\* that no pass ran in the dt ms before it
LoopPass(dt, in, gap) ==
  /\ elapsed + dt <= env.horizon
  /\ \A v \in Voices(variant) : balance[v] < MaxBalance
  /\ stepEvents < MaxStepEvents
  /\ \E t \in {AddMs(now, dt)} : \E p \in {Pass(t, in[1], in[2], in[3])} :
      /\ elapsed' = elapsed + dt
      /\ now' = t
      /\ pin' = in[1]
      /\ tempoRaw' = in[2]
      /\ swingRaw' = in[3]
      /\ btn' = p.btn
      /\ pattern' = p.pattern
      /\ currentVoice' = p.currentVoice
      /\ stepLed' = p.stepLed
      /\ isPlaying' = p.isPlaying
      /\ stepIndex' = p.stepIndex
      /\ stepIntervalMs' = p.stepIntervalMs
      /\ nextStepAt' = p.nextStepAt
      /\ noteActive' = p.noteActive
      /\ noteOffAt' = p.noteOffAt
      /\ txLed' = p.txLed
      /\ emitted' = p.emitted
      /\ balance' = [v \in Voices(variant) |->
                       balance[v] + (IF v \in p.ons THEN 1 ELSE 0)
                                  - (IF v \in p.flushed \cup p.expired THEN 1 ELSE 0)]
      /\ onAt' = [v \in Voices(variant) |-> IF v \in p.ons THEN t ELSE onAt[v]]
      /\ prompt' = [v \in Voices(variant) |-> v \in p.ons \/ (prompt[v] /\ ~gap)]
      /\ stepEvents' = stepEvents + (IF p.due THEN 1 ELSE 0)
      /\ toggles' = [v \in Voices(variant) |-> [s \in Steps |->
                       toggles[v][s]
                         + (IF v = p.currentVoice /\ s \in p.edges THEN 1 ELSE 0)]]
      /\ last' = [ kind         |-> "pass",
                   gap          |-> gap,
                   wasPlaying   |-> isPlaying,
                   wasActive    |-> {v \in Voices(variant) : noteActive[v]},
                   flushed      |-> p.flushed,
                   expired      |-> p.expired,
                   ons          |-> p.ons,
                   commit       |-> p.commit,
                   edges        |-> p.edges,
                   due          |-> p.due,
                   skip         |-> p.skip,
                   stepTested   |-> p.stepTested,
                   stepDeadline |-> p.stepDeadline,
                   stepPlayed   |-> p.stepPlayed,
                   offAtBefore  |-> noteOffAt,
                   intervalWas  |-> stepIntervalMs,
                   prompted     |-> {v \in p.flushed \cup p.expired : prompt[v] /\ ~gap},
                   held         |-> [v \in Voices(variant) |->
                                       IF v \in p.flushed \cup p.expired
                                         THEN Clamp31(SubU32(t, onAt[v])) ELSE -1] ]
      /\ UNCHANGED << variant, env >>

\* A pass that finds the inputs unchanged, which a paced environment that could
\* have changed one counts as a wait: in the same millisecond as the last
\* one or the next, when it has something to do; or d ms later at the next
\* pending deadline, the passes in between, each at most 1 ms after the one before,
\* having changed nothing.
Tick(d) ==
  /\ IF d <= 1 THEN ~(InputsAtRest /\ QuietAt(AddMs(now, d)))
               ELSE QuietThrough(d - 1)
  /\ IF env.paced /\ InputMoves # {}
       THEN waits < MaxWaits /\ waits' = waits + 1
       ELSE waits' = waits
  /\ LoopPass(d, <<pin, tempoRaw, swingRaw>>, FALSE)
  /\ UNCHANGED << moves, lates >>

\* a pass right after the previous one that finds one input changed
InputTick(in) ==
  /\ LoopPass(1, in, FALSE)
  /\ moves' = moves + (IF PacedRelease(in) THEN 0 ELSE 1)
  /\ UNCHANGED << lates, waits >>

\* a pass that comes dt ms after the previous one, nothing having run in between
LateTick(dt) ==
  /\ lates < env.lates
  /\ LoopPass(dt, <<pin, tempoRaw, swingRaw>>, TRUE)
  /\ lates' = lates + 1
  /\ UNCHANGED << moves, waits >>

\* nothing pressed, nothing sounding, stopped: no pass changes anything however
\* long the sketch is left alone
Idle ==
  /\ InputsAtRest
  /\ Settled
  /\ \A v \in Voices(variant) : ~noteActive[v]
  /\ ~isPlaying

\* the sketch left untouched from power-up until millis() is g ms short of
\* wrapping
IdleRun(g) ==
  /\ env.idle
  /\ Idle
  /\ moves = 0
  /\ now.hi = 0
  /\ now' = SubU32(U32(0), U32(g))
  /\ emitted' = << >>
  /\ last' = [kind |-> "idle"]
  /\ UNCHANGED << variant, env, pin, tempoRaw, swingRaw, btn, pattern, currentVoice,
                  isPlaying, stepIndex, stepIntervalMs, nextStepAt, noteActive,
                  noteOffAt, txLed, stepLed, elapsed, moves, lates, waits,
                  balance, onAt, prompt, stepEvents, toggles >>

Next ==
  \/ \E d \in {0, 1} \cup NextPending : Tick(d)
  \/ \E in \in InputMoves : InputTick(in)
  \/ \E dt \in LateDts : LateTick(dt)
  \/ \E g \in NearWrap : IdleRun(g)

Spec == Init /\ [][Next]_vars

-----------------------------------------------------------------------------
(* The gate-expiry check (C1, C2) *)

\* voice v sounds although its off-deadline has been reached
Overdue(v) == noteActive[v] /\ Int32NonNeg(SubU32(now, noteOffAt[v]))

\* C1: in every variant, playing or stopped and whatever the tempo input, the
\* gate-expiry check runs on every pass: at the end of a pass no voice is
\* sounding with its off-deadline already reached at the time of that pass.
C1_GateCheckedEveryPass ==
  last.kind = "pass" => \A v \in Voices(variant) : ~Overdue(v)

\* the case C1 fails in: the swing sketch has returned before its note-off loop
C1_OverdueAtTempoRest ==
  /\ variant = "swing"
  /\ last.kind = "pass"
  /\ last.skip
  /\ \E v \in Voices(variant) : Overdue(v)

\* the statement of C1 for the three fixed-tempo sketches alone
C1_FixedTempoOnly == FixedTempo(variant) => C1_GateCheckedEveryPass

\* Voice v sounds and, with the inputs left as they are, no pass at any later
\* time changes anything: the passes are quiet at every time from which on the
\* answer of QuietAt can be a different one.
HeldForever(v) ==
  /\ noteActive[v]
  /\ InputsAtRest
  /\ Settled
  /\ \A x \in SwitchTimes \cup {now} : QuietAt(x)

\* C2: no voice is left sounding indefinitely.  Every note-on is eventually
\* followed by a note-off of that voice as long as loop() keeps running: so no
\* state is reached in which a voice sounds and, the inputs staying as they
\* are, no later pass ever sends its note-off.
C2_NoVoiceHeldForever == \A v \in Voices(variant) : ~HeldForever(v)

\* the statement of C2 for the three fixed-tempo sketches alone
C2_FixedTempoOnly == FixedTempo(variant) => C2_NoVoiceHeldForever

-----------------------------------------------------------------------------
(* Note-on / note-off balance (C3) and the stop flush (C4) *)

\* C3: for every voice, the number of note-ons sent minus the number of
\* note-offs sent is 1 while the voice sounds and 0 while it is silent: every
\* note-on is matched by exactly one note-off, by expiry or by stop, and no
\* note-off is sent without an unmatched note-on before it.
C3_OnOffBalanced ==
  \A v \in Voices(variant) : balance[v] = (IF noteActive[v] THEN 1 ELSE 0)

\* the statement of C3 for the three fixed-tempo sketches alone
C3_FixedTempoOnly == FixedTempo(variant) => C3_OnOffBalanced

\* the last pass stopped the engine
Stopped == last.kind = "pass" /\ last.wasPlaying /\ ~isPlaying

\* C4: a pass whose play-button edge stops the engine while N voices sound
\* sends exactly N note-offs, one for each sounding voice and nothing else (no
\* second note-off from the expiry check of the same pass, no note-on), and no
\* pass sends a note-on while the engine stays stopped.
C4_StopFlushes ==
  /\ Stopped =>
       /\ playBtn \in last.edges
       /\ last.flushed = last.wasActive
       /\ last.expired = {}
       /\ emitted = [i \in 1 .. Cardinality(last.wasActive) |->
                       NoteOffMsg(variant, InOrder(variant, last.wasActive)[i])]
       /\ \A v \in Voices(variant) : ~noteActive[v] /\ balance[v] = 0
  /\ (last.kind = "pass" /\ ~isPlaying) => last.ons = {}

\* a stop while two voices sound
C4_StoppedWhileSounding == Stopped /\ Cardinality(last.wasActive) >= 2

-----------------------------------------------------------------------------
(* Deadline tests across the wrap of millis() (C5) *)

\* the deadline is reached at the time of the last pass, by the signed difference
SignedReached(deadline) == Int32NonNeg(SubU32(now, deadline))

\* C5: in every variant the step-due test and the note-off-due test are
\* wraparound-safe: a pass that makes the test finds the deadline reached
\* exactly if the signed difference (now - deadline) is >= 0, also when the
\* deadline lies across a wrap of the 32-bit counter.
C5_WrapSafeTests ==
  last.kind = "pass" =>
    /\ last.stepTested => (last.due <=> SignedReached(last.stepDeadline))
    /\ ~last.skip =>
         \A v \in last.wasActive \ last.flushed :
            v \in last.expired <=> SignedReached(last.offAtBefore[v])

\* the statement of C5 for the three fixed-tempo sketches alone
C5_FixedTempoOnly == FixedTempo(variant) => C5_WrapSafeTests

\* the case C5 fails in: the swing sketch finds a step due whose deadline lies
\* beyond the wrap that the counter has not reached yet
C5_StepFiredEarly ==
  /\ variant = "swing"
  /\ last.kind = "pass"
  /\ last.stepTested
  /\ last.due
  /\ ~SignedReached(last.stepDeadline)

\* a fixed-tempo sketch tests a step deadline that lies beyond the wrap
C5_TestAcrossWrap ==
  /\ FixedTempo(variant)
  /\ last.kind = "pass"
  /\ last.stepTested
  /\ last.stepDeadline.hi = 0
  /\ now.hi = Limb - 1
  /\ ~last.due

-----------------------------------------------------------------------------
(* The debouncer inside loop() (C6) *)

\* C6: the stable level of a button changes only at a poll that reads the raw
\* level recorded last and comes more than the debounce window after the last
\* recorded raw change; a poll reports an edge only when it changes the stable
\* level.  So raw flips none of which is held for the window change nothing.
C6_DebounceStability ==
  [][\A b \in Buttons(variant) :
       /\ btn'[b].stable # btn[b].stable =>
            /\ pin'[b] = btn[b].lastRead
            /\ GtMs(SubU32(now', btn[b].lastChange), Debounce(b))
            /\ btn'[b].stable = pin'[b]
       /\ (last'.kind = "pass" /\ b \in last'.edges) =>
            btn'[b].stable # btn[b].stable]_vars

\* a poll has just committed a new stable level
C6_Committed == last.kind = "pass" /\ last.commit # {}

-----------------------------------------------------------------------------
(* One button clicked once (C7) *)

\* A second specification drives the debouncer of one button alone: the button
\* starts released, is pressed once and released once, and is polled at any
\* spacing from PollGaps.  A level counts as held for longer than the window
\* once a poll has read it more than the window after the first poll that read
\* it.  `last' keeps the phase of the click, the number of polls that returned
\* true and what the last poll did.

ButtonHorizon == 150   \* ms over which the click is followed
PollGaps == {0, 1, 7, 45}

\* the buttons driven: a step button and the play button
Clicked == {0, playBtn}

ButtonInit ==
  /\ variant \in Variants
  /\ env \in {[name |-> "button", pins |-> {b}] : b \in Clicked}
  /\ pin = AllHigh(variant)
  /\ tempoRaw = 0
  /\ swingRaw = ADC_CENTER
  /\ InitProgram
  /\ elapsed = 0
  /\ moves = 0
  /\ lates = 0
  /\ waits = 0
  /\ emitted = << >>
  /\ balance = [v \in Voices(variant) |-> 0]
  /\ onAt = [v \in Voices(variant) |-> U32(0)]
  /\ prompt = [v \in Voices(variant) |-> TRUE]
  /\ stepEvents = 0
  /\ toggles = [v \in Voices(variant) |-> [s \in Steps |-> 0]]
  /\ last = [kind |-> "setup", phase |-> "idle", trues |-> 0, returned |-> FALSE,
             stableWas |-> HIGH, readWas |-> HIGH, seenAt |-> U32(0)]

\* everything but the button, the clock and the record of the click
ButtonRest ==
  << variant, env, tempoRaw, swingRaw, pattern, currentVoice, isPlaying,
     stepIndex, stepIntervalMs, nextStepAt, noteActive, noteOffAt, txLed,
     stepLed, moves, lates, waits, emitted, balance, onAt, prompt, stepEvents,
     toggles >>

\* pollFalling / pollEdgeFalling called for the button dt ms after the last poll
Poll(dt) ==
  \E b \in env.pins : \E t \in {AddMs(now, dt)} :
    /\ last.phase # "done"
    /\ elapsed + dt <= ButtonHorizon
    /\ elapsed' = elapsed + dt
    /\ now' = t
    /\ btn' = [btn EXCEPT ![b] = PollBtn(btn[b], pin[b], t, Debounce(b))]
    /\ last' = [last EXCEPT
                  !.kind      = "poll",
                  !.returned  = PollEdge(btn[b], pin[b], t, Debounce(b)),
                  !.trues     = @ + (IF PollEdge(btn[b], pin[b], t, Debounce(b))
                                       THEN 1 ELSE 0),
                  !.stableWas = btn[b].stable,
                  !.seenAt    = IF pin[b] # last.readWas THEN t ELSE @,
                  !.readWas   = pin[b]]
    /\ UNCHANGED << pin, ButtonRest >>

\* the polls have read level r for longer than the window of button b
HeldClean(b, r) ==
  /\ pin[b] = r
  /\ last.readWas = r
  /\ GtMs(SubU32(now, last.seenAt), Debounce(b))

Press ==
  \E b \in env.pins :
    /\ last.phase = "idle"
    /\ pin' = [pin EXCEPT ![b] = LOW]
    /\ last' = [last EXCEPT !.kind = "press", !.phase = "pressed"]
    /\ UNCHANGED << now, btn, elapsed, ButtonRest >>

Release ==
  \E b \in env.pins :
    /\ last.phase = "pressed"
    /\ HeldClean(b, LOW)
    /\ pin' = [pin EXCEPT ![b] = HIGH]
    /\ last' = [last EXCEPT !.kind = "release", !.phase = "released"]
    /\ UNCHANGED << now, btn, elapsed, ButtonRest >>

\* the release has been held for longer than the window: the click is over
Finish ==
  \E b \in env.pins :
    /\ last.phase = "released"
    /\ HeldClean(b, HIGH)
    /\ last' = [last EXCEPT !.kind = "finish", !.phase = "done"]
    /\ UNCHANGED << now, pin, btn, elapsed, ButtonRest >>

ButtonNext ==
  \/ \E dt \in PollGaps : Poll(dt)
  \/ Press
  \/ Release
  \/ Finish

ButtonSpec == ButtonInit /\ [][ButtonNext]_vars

\* C7: one clean press and one clean release of an idle button, each held for
\* longer than the debounce window and polled at any rate, make the debouncer
\* return true on exactly one poll, the one that commits HIGH to LOW; every
\* other poll returns false, the one that commits the release included.
C7_OneEdgePerClick ==
  \A b \in env.pins :
    /\ last.trues <= 1
    /\ last.kind = "poll" =>
         /\ last.returned <=> (last.stableWas = HIGH /\ btn[b].stable = LOW)
         /\ last.returned => last.phase = "pressed"
    /\ last.phase \in {"released", "done"} => last.trues = 1
    /\ last.phase = "done" => btn[b].stable = HIGH

\* the click is over: the press and the release have both been committed
C7_ClickDone ==
  /\ last.phase = "done"
  /\ last.trues = 1
  /\ \A b \in env.pins : btn[b].stable = HIGH /\ btn[b].lastChange # U32(0)

-----------------------------------------------------------------------------
(* The step cycle (C8), the sustain (C9) and the step evaluation (C10) *)

\* C8: in the fixed-tempo sketches the step index stays in 0..3, changes only
\* on a step-due event and then by +1 modulo 4; counted from step 0, the index
\* is the number of step events modulo 4, so four events visit 0, 1, 2, 3 and
\* return to 0, whatever the spacing of the passes and the button presses.
C8_StepCycle ==
  [][FixedTempo(variant) =>
       /\ stepIndex \in Steps
       /\ stepIndex = stepEvents % STEP_COUNT
       /\ stepIndex' = (IF last'.kind = "pass" /\ last'.due
                          THEN (stepIndex + 1) % STEP_COUNT
                          ELSE stepIndex)]_vars

\* the fourth step event has brought the index back to 0
C8_CycleClosed ==
  /\ FixedTempo(variant)
  /\ last.kind = "pass"
  /\ last.due
  /\ stepEvents = STEP_COUNT
  /\ stepIndex = 0

\* the gate duration configured in the sketch
GateDuration(va) == IF va = "swing" THEN GATE_MS ELSE GATE_MS_BASE

\* min(gate duration, step interval - 10 ms)
SustainBound ==
  IF GateDuration(variant) <= stepIntervalMs - GATE_MARGIN_MS
    THEN GateDuration(variant)
    ELSE stepIntervalMs - GATE_MARGIN_MS

\* ms since the last note-on of voice v
SoundingFor(v) == Clamp31(SubU32(now, onAt[v]))

\* C9: with the passes at most 1 ms apart, the time from a note-on to its
\* note-off is strictly positive and at most min(gate, step interval - 10 ms),
\* whether expiry or a stop ends the note; so a voice that still sounds has not
\* been sounding for longer than that either.
C9_BoundedSustain ==
  /\ last.kind = "pass" =>
       \A v \in last.prompted : 0 < last.held[v] /\ last.held[v] <= SustainBound
  /\ \A v \in Voices(variant) :
       (noteActive[v] /\ prompt[v]) => SoundingFor(v) <= SustainBound

\* the statement of C9 for the three fixed-tempo sketches alone
C9_FixedTempoOnly == FixedTempo(variant) => C9_BoundedSustain

\* a fixed-tempo sketch has ended a note, all passes 1 ms apart at most
C9_NoteEnded ==
  /\ FixedTempo(variant)
  /\ last.kind = "pass"
  /\ last.prompted # {}

\* the case C9 fails in: the tempo pot at rest keeps a note past its gate
C9_HeldPastGate ==
  /\ variant = "swing"
  /\ TempoStopped(tempoRaw)
  /\ \E v \in Voices(variant) :
       noteActive[v] /\ prompt[v] /\ SoundingFor(v) > GATE_MS

\* the note-ons among the messages of the last pass
NoteOns == SelectSeq(emitted, LAMBDA m : m.kind = "on")

\* C10: a step-due event at step s sends a note-on for exactly the voices v
\* with pattern[v][s] set, each with the note of the voice, the fixed velocity
\* and the channel, and a pass sends no other note-on.  At 127 BPM the step
\* interval is 472 ms, and a note is ended at most 462 ms after its note-on
\* when the passes are at most 1 ms apart.
C10_StepEvaluation ==
  last.kind = "pass" =>
    LET due == IF last.due THEN {v \in Voices(variant) : pattern[v][last.stepPlayed]}
                           ELSE {}
    IN  /\ last.ons = due
        /\ NoteOns = [i \in 1 .. Cardinality(due) |->
                        [kind  |-> "on",
                         voice |-> InOrder(variant, due)[i],
                         note  |-> VOICE_NOTES(variant)[InOrder(variant, due)[i] + 1],
                         vel   |-> NOTE_VELOCITY,
                         ch    |-> MIDI_CHANNEL(variant)]]
        /\ FixedTempo(variant) =>
             /\ stepIntervalMs = 472
             /\ \A v \in last.prompted : last.held[v] <= 462

\* with only pattern[0][0] set, the first step event has sent the note-on of
\* voice 0 alone, and the last pass has sent its note-off
C10_FirstStepNote ==
  /\ variant = "multi"
  /\ \A v \in Voices(variant) : \A st \in Steps : pattern[v][st] <=> (v = 0 /\ st = 0)
  /\ stepEvents = 1
  /\ last.kind = "pass"
  /\ last.expired = {0}
  /\ 0 \in last.prompted
  /\ balance[0] = 0

-----------------------------------------------------------------------------
(* The swing sketch over the range of its pots (C11, C18) *)

\* A third specification runs the swing sketch with the pots held at any of a
\* spread of positions: the play button is pressed once, and kept pressed, and
\* the sketch is then followed from step deadline to step deadline, however far
\* apart they lie.

SweepHorizon == 400000   \* running time explored (ms)

\* pot positions: at rest and just above it, then spread over the range
TempoSweep == {0, 1, 2, 3} \cup {tr \in 4 .. ADC_MAX : tr % 32 = 31}
SwingSweep == {sr \in 0 .. ADC_MAX : sr % 32 \in {0, 31}} \cup {ADC_CENTER - 1, ADC_CENTER + 1}

SweepInit ==
  /\ variant = "swing"
  /\ env = [name |-> "sweep", pins |-> {playBtn}, pots |-> FALSE, paced |-> FALSE,
            idle |-> FALSE, moves |-> 1, script |-> << playBtn >>, lates |-> 0,
            horizon |-> SweepHorizon]
  /\ pin \in BootPins(variant)
  /\ tempoRaw \in TempoSweep
  /\ swingRaw \in SwingSweep
  /\ InitProgram
  /\ InitHistory

\* ms to the next pending deadline that is more than a pass away, however far
DuePending ==
  LET ahead == {d \in Pending : 2 <= d /\ d <= SweepHorizon}
  IN  IF ahead = {} THEN {} ELSE {Least(ahead)}

\* the pass at the next pending deadline, every pass before it being quiet
DueTick(d) ==
  /\ QuietThrough(d - 1)
  /\ LoopPass(d, <<pin, tempoRaw, swingRaw>>, FALSE)
  /\ UNCHANGED << moves, lates, waits >>

SweepNext ==
  \/ \E d \in {0, 1} : Tick(d)
  \/ \E in \in InputMoves : InputTick(in)
  \/ \E d \in DuePending : DueTick(d)

SweepSpec == SweepInit /\ [][SweepNext]_vars

\* ms from the last pass to the step deadline it left
ArmedDelta == Clamp31(SubU32(nextStepAt, now))

\* C11: in the swing sketch, when an even-indexed step and the odd-indexed step
\* after it are played with the same base interval B and the same swing pot
\* position (any ratio in [-0.6, 0.6]), the delta armed after the even step plus
\* the delta armed after the odd step is 2B to within 1 ms, at every tempo above
\* 0.5 BPM.
C11_SwingSymmetry ==
  [][ ( /\ last.kind = "pass" /\ last.due /\ last.stepPlayed % 2 = 0
        /\ last'.kind = "pass" /\ last'.due /\ last'.stepPlayed = last.stepPlayed + 1
        /\ stepIntervalMs' = stepIntervalMs
        /\ swingRaw' = swingRaw )
      => (ArmedDelta + ArmedDelta' - 2 * stepIntervalMs) \in -1 .. 1 ]_vars

\* the odd step after an even one has been played at the slowest tempo of the
\* sweep with the swing pot at its lowest
C11_PairArmed ==
  /\ tempoRaw = 3
  /\ swingRaw = 0
  /\ last.kind = "pass"
  /\ last.due
  /\ last.stepPlayed = 1
  /\ stepEvents = 2
  /\ ArmedDelta < stepIntervalMs

-----------------------------------------------------------------------------
(* Pattern edits (C12) *)

\* the pattern setup() leaves
BootPattern(va) == [v \in Voices(va) |-> [s \in Steps |-> va = "basic"]]

\* the boot pattern with every cell flipped that was toggled an odd number of times
PatternAsToggled ==
  [v \in Voices(variant) |-> [s \in Steps |->
     BootPattern(variant)[v][s] # (toggles[v][s] % 2 = 1)]]

\* C12: every committed press of a step button flips the cell of the selected
\* voice at that step, so two of them on one cell restore it; the step LEDs show
\* the cells of the selected voice, so the LED is restored with it; and a
\* step-due event sends the note-ons of the pattern in which only the cells
\* pressed an odd number of times differ from the start, the same as if the
\* pairs of presses had not been made.
C12_ToggleTwiceRestores ==
  /\ pattern = PatternAsToggled
  /\ \A s \in Steps : stepLed[s] = pattern[currentVoice][s]
  /\ (last.kind = "pass" /\ last.due)
       => last.ons = {v \in Voices(variant) : PatternAsToggled[v][last.stepPlayed]}

\* a cell has been pressed twice and its step has come due afterwards
C12_ToggledTwiceThenDue ==
  /\ toggles[0][0] = 2
  /\ pattern = BootPattern(variant)
  /\ last.kind = "pass"
  /\ last.due
  /\ last.stepPlayed = 0

-----------------------------------------------------------------------------
(* The gate of a note over the range of gates and step intervals (C13) *)

\* A fourth specification follows the scheduler of a fixed-tempo sketch built
\* with another base gate and another tempo than the shipped ones: the sketch
\* plays, voice 0 is set at every step, and the passes that do something are the
\* step events and the passes that end the note between them.

MaxGateSteps == 3   \* step events followed

\* values of GATE_MS_BASE and of stepIntervalMs
Gates         == {1, 5, 60, 120, 500}
GateIntervals == {1, 5, 9, 10, 11, 60, 64, 70, 115, 119, 120, 121, 125, 129,
                  130, 131, 472, 499, 505, 510, 511}

GateInit ==
  /\ variant \in {va \in Variants : FixedTempo(va)}
  /\ env \in {[name |-> "gate", gate |-> g] : g \in Gates}
  /\ stepIntervalMs \in GateIntervals
  /\ pin = AllHigh(variant)
  /\ tempoRaw = 0
  /\ swingRaw = ADC_CENTER
  /\ now = U32(0)
  /\ btn = [b \in Buttons(variant) |-> BootBtn(variant, HIGH)]
  /\ pattern = [v \in Voices(variant) |-> [s \in Steps |-> v = 0]]
  /\ currentVoice = 0
  /\ isPlaying = TRUE
  /\ stepIndex = 0
  /\ nextStepAt = U32(stepIntervalMs)
  /\ noteActive = [v \in Voices(variant) |-> FALSE]
  /\ noteOffAt = [v \in Voices(variant) |-> U32(0)]
  /\ txLed = LOW
  /\ stepLed = [s \in Steps |-> TRUE]
  /\ InitHistory

\* everything the scheduler leaves alone
GateRest ==
  << variant, env, pin, tempoRaw, swingRaw, btn, pattern, currentVoice, isPlaying,
     stepIntervalMs, txLed, stepLed, elapsed, moves, lates, waits, onAt, prompt,
     toggles >>

\* runSequencer at the step deadline: the note-off test, then the note-on of
\* voice 0 with its gate, then the advance
GateStep ==
  LET t       == nextStepAt
      expired == noteActive[0] /\ DeadlineReached(variant, t, noteOffAt[0])
  IN  /\ stepEvents < MaxGateSteps
      /\ now' = t
      /\ noteActive' = [noteActive EXCEPT ![0] = TRUE]
      /\ noteOffAt' = [noteOffAt EXCEPT
                         ![0] = AddMs(t, GateClamp(variant, env.gate, stepIntervalMs))]
      /\ stepIndex' = NextStep(stepIndex)
      /\ nextStepAt' = AddMs(t, stepIntervalMs)
      /\ stepEvents' = stepEvents + 1
      /\ balance' = [balance EXCEPT ![0] = @ + 1 - (IF expired THEN 1 ELSE 0)]
      /\ emitted' = (IF expired THEN << NoteOffMsg(variant, 0) >> ELSE << >>)
                    \o << NoteOnMsg(variant, 0) >>
      /\ last' = [kind |-> "step", wasActive |-> noteActive[0], expired |-> expired]
      /\ UNCHANGED GateRest

\* runSequencer at the off-deadline of voice 0, when it comes before the next step
GateOff ==
  /\ noteActive[0]
  /\ ~Int32NonNeg(SubU32(noteOffAt[0], nextStepAt))
  /\ now' = noteOffAt[0]
  /\ noteActive' = [noteActive EXCEPT ![0] = FALSE]
  /\ balance' = [balance EXCEPT ![0] = @ - 1]
  /\ emitted' = << NoteOffMsg(variant, 0) >>
  /\ last' = [kind |-> "off", wasActive |-> TRUE, expired |-> TRUE]
  /\ UNCHANGED << noteOffAt, stepIndex, nextStepAt, stepEvents, GateRest >>

GateNext == GateStep \/ GateOff

GateSpec == GateInit /\ [][GateNext]_vars

\* the gate as the specification computes it
ClampedGate(gate, interval) ==
  IF interval - GATE_MARGIN_MS > 0
    THEN (IF gate < interval - GATE_MARGIN_MS THEN gate ELSE interval - GATE_MARGIN_MS)
    ELSE interval

\* ms from the last pass to the off-deadline of voice 0
GateArmed == Clamp31(SubU32(noteOffAt[0], now))

\* C13: in the fixed-tempo sketches, for every base gate and every step
\* interval, a note-on at time now sets the off-deadline to
\* now + min(gate, interval - 10), or to now + interval when interval - 10 is
\* not positive; the gate is never zero and, when the margin applies, ends
\* before the next step.
C13_GateClamp ==
  last.kind = "step" =>
    /\ GateArmed = ClampedGate(env.gate, stepIntervalMs)
    /\ GateArmed > 0
    /\ stepIntervalMs > GATE_MARGIN_MS => GateArmed < stepIntervalMs

\* the case C13 fails in: a base gate that is not above the interval but within
\* the margin of it is used as it is
C13_GateWithinMargin ==
  /\ last.kind = "step"
  /\ env.gate <= stepIntervalMs
  /\ env.gate > stepIntervalMs - GATE_MARGIN_MS
  /\ stepIntervalMs > GATE_MARGIN_MS
  /\ GateArmed = env.gate

\* the statement of C13 for the shipped gate and tempo: every note-on of a
\* fixed-tempo sketch sets the off-deadline 120 ms = min(120, 472 - 10) ahead
C13_ShippedGate ==
  (FixedTempo(variant) /\ last.kind = "pass") =>
    \A v \in last.ons :
      noteOffAt[v] = AddMs(now, ClampedGate(GATE_MS_BASE, FixedStepInterval))

-----------------------------------------------------------------------------
(* Note-on only from Silent (C14) *)

\* the voices still sounding when the last pass reached its note-on loop
StillSounding == last.wasActive \ (last.flushed \cup last.expired)

\* C14: in every sketch a pass sends a note-on only for a voice that is silent
\* by then: a voice that sounded when the pass began has had its note-off sent
\* earlier in the same pass, so no voice gets two note-ons in a row.
C14_NoteOnFromSilent ==
  last.kind = "pass" => last.ons \cap StillSounding = {}

\* the statement of C14 for the three fixed-tempo sketches alone
C14_FixedTempoOnly == FixedTempo(variant) => C14_NoteOnFromSilent

\* the case C14 fails in: the swing sketch triggers a voice that still sounds
C14_Retriggered ==
  /\ variant = "swing"
  /\ last.kind = "pass"
  /\ last.ons \cap StillSounding # {}

\* a late pass of a fixed-tempo sketch ends the note of a voice and triggers
\* the voice again
C14_OffThenOn ==
  /\ FixedTempo(variant)
  /\ last.kind = "pass"
  /\ last.ons \cap last.expired # {}

-----------------------------------------------------------------------------
(* Stopped means silent (C15) *)

\* C15: at the end of every pass that leaves the engine stopped, and after
\* setup(), no voice sounds: the pass that stops the engine silences every
\* sounding voice, and a pass of a stopped engine triggers none.
C15_StoppedIsSilent ==
  ~isPlaying =>
    /\ \A v \in Voices(variant) : ~noteActive[v]
    /\ last.kind = "pass" => last.ons = {}
    /\ (last.kind = "pass" /\ last.wasPlaying) => last.flushed = last.wasActive

\* the engine has been stopped in the swing sketch while a voice sounded
C15_SwingSilenced ==
  /\ variant = "swing"
  /\ ~isPlaying
  /\ last.kind = "pass"
  /\ last.flushed # {}

-----------------------------------------------------------------------------
(* Starting playback in the fixed-tempo sketches (C16) *)

\* the step buttons that committed a press in the pass just made
StepEdges == last.edges \cap Steps

\* C16: in the fixed-tempo sketches the pass whose play-button edge starts
\* playback arms nextStepAt = now + stepInterval, sends nothing, plays no step
\* and leaves the step index, the voices' runtime state and (but for a step or
\* select press committed in the same pass) the pattern and the selected voice
\* as they were; a step is played only once its armed deadline is reached, so
\* not before stepInterval ms after the start; and the pass that stops playback
\* leaves the step index alone, so playback resumes at the step it stopped at.
C16_StartArmsOnly ==
  [][ FixedTempo(variant) =>
        /\ (~isPlaying /\ isPlaying') =>
             /\ nextStepAt' = AddMs(now', stepIntervalMs)
             /\ stepIntervalMs' = stepIntervalMs
             /\ stepIndex' = stepIndex
             /\ noteActive' = noteActive
             /\ noteOffAt' = noteOffAt
             /\ emitted' = << >>
             /\ ~last'.due
             /\ StepEdges' = {} => pattern' = pattern
             /\ instBtn \notin last'.edges => currentVoice' = currentVoice
        /\ (isPlaying /\ ~isPlaying') => stepIndex' = stepIndex
        /\ (last'.kind = "pass" /\ last'.due) =>
             /\ isPlaying
             /\ Int32NonNeg(SubU32(now', nextStepAt)) ]_vars

\* playback has been started again at the step it was stopped at, not step 0
C16_ResumedMidCycle ==
  /\ FixedTempo(variant)
  /\ last.kind = "pass"
  /\ ~last.wasPlaying
  /\ isPlaying
  /\ stepIndex # 0
  /\ stepEvents > 0

-----------------------------------------------------------------------------
(* The play button of the swing sketch (C17) *)

\* the last pass committed a press of the play button
PlayEdge == last.kind = "pass" /\ playBtn \in last.edges

\* C17: in the swing sketch every pass that commits a press of the play
\* button, starting or stopping, sets the step index to 0 and the step deadline
\* to the time of the pass; when it starts playback with the tempo above
\* 0.5 BPM, the same pass finds step 0 due and sends its note-ons.
C17_PlayEdgeRewinds ==
  (variant = "swing" /\ PlayEdge) =>
    /\ last.stepPlayed = 0
    /\ last.stepDeadline = now
    /\ IF isPlaying /\ ~last.skip
         THEN /\ last.due
              /\ last.ons = {v \in Voices(variant) : pattern[v][0]}
              /\ stepIndex = 1
         ELSE /\ ~last.due
              /\ stepIndex = 0
              /\ nextStepAt = now

\* the press that starts the swing sketch has sent the note-on of step 0
C17_StartPlaysStepZero ==
  /\ variant = "swing"
  /\ PlayEdge
  /\ ~last.wasPlaying
  /\ last.ons # {}
  /\ stepEvents = 1

\* the press that stops the swing sketch has taken the step index back to 0
C17_StopRewinds ==
  /\ variant = "swing"
  /\ PlayEdge
  /\ last.wasPlaying
  /\ stepEvents \in {1, 2, 3}
  /\ stepIndex = 0

-----------------------------------------------------------------------------
(* The swing interval (C18) *)

\* C18: in the swing sketch a step event arms the next deadline base - offset
\* ms ahead when the step played is even and base + offset ms ahead when it is
\* odd, base being the interval of the tempo read in that pass and offset the
\* truncated product of base and the swing ratio; the delta is at least 1 ms,
\* so the new deadline is later than the pass, at every tempo above 0.5 BPM
\* and every position of the swing pot.
C18_SwingInterval ==
  (variant = "swing" /\ last.kind = "pass" /\ last.due) =>
    LET base   == (60000 * ADC_MAX) \div (MAX_BPM * tempoRaw)
        offset == SwingOffset(base, swingRaw)
        delta  == IF last.stepPlayed % 2 = 0 THEN base - offset ELSE base + offset
    IN  /\ ~TempoStopped(tempoRaw)
        /\ stepIntervalMs = base
        /\ ArmedDelta = (IF delta < 1 THEN 1 ELSE delta)
        /\ ArmedDelta >= 1
        /\ nextStepAt # now
        /\ ~Int32NonNeg(SubU32(now, nextStepAt))

\* an even step has been played at the fastest tempo with the swing pot at its
\* top: the deadline is armed 250 - 149 ms ahead
C18_EvenShortened ==
  /\ tempoRaw = ADC_MAX
  /\ swingRaw = ADC_MAX
  /\ last.kind = "pass"
  /\ last.due
  /\ last.stepPlayed = 2
  /\ ArmedDelta = 101

-----------------------------------------------------------------------------
(* The swing sketch with the tempo at rest (C19) *)

\* C19: a pass of the swing sketch that reads the tempo pot at rest (at or
\* below 0.5 BPM) plays no step and sends no note-on, and its scheduler leaves
\* the step index, the step deadline and the step interval as the button
\* handling of the pass left them (untouched, but for the rewind of a committed
\* play press); the button handling of the pass still acts: a step press flips
\* its cell, a select press moves to the next voice, a play press starts or
\* stops, and the stop sends the note-off of every sounding voice.
C19_RestTempoFreezes ==
  [][ (variant = "swing" /\ last'.kind = "pass" /\ TempoStopped(tempoRaw')) =>
        /\ ~last'.due
        /\ last'.ons = {}
        /\ stepIntervalMs' = stepIntervalMs
        /\ IF playBtn \in last'.edges
             THEN /\ stepIndex' = 0
                  /\ nextStepAt' = now'
                  /\ isPlaying' = ~isPlaying
                  /\ isPlaying =>
                       /\ last'.flushed = {v \in Voices(variant) : noteActive[v]}
                       /\ Len(emitted') = Cardinality(last'.flushed)
                       /\ \A v \in Voices(variant) : ~noteActive'[v]
             ELSE /\ stepIndex' = stepIndex
                  /\ nextStepAt' = nextStepAt
                  /\ isPlaying' = isPlaying
        /\ currentVoice' = (IF instBtn \in last'.edges
                              THEN (currentVoice + 1) % VOICE_COUNT
                              ELSE currentVoice)
        /\ \A v \in Voices(variant) : \A st \in Steps :
             pattern'[v][st] =
               (IF v = currentVoice' /\ st \in last'.edges
                  THEN ~pattern[v][st] ELSE pattern[v][st]) ]_vars

\* with the tempo at rest a stop has sent the note-off of a sounding voice
C19_StoppedAtRest ==
  /\ variant = "swing"
  /\ TempoStopped(tempoRaw)
  /\ last.kind = "pass"
  /\ last.wasPlaying
  /\ ~isPlaying
  /\ last.flushed # {}

\* with the tempo at rest a step press has been committed
C19_EditedAtRest ==
  /\ variant = "swing"
  /\ TempoStopped(tempoRaw)
  /\ last.kind = "pass"
  /\ last.edges \cap Steps # {}

-----------------------------------------------------------------------------
(* What changes the pattern and the selected voice (C20) *)

\* C20: a pass changes a pattern cell only by a committed press of a step
\* button s, and then flips the one cell pattern[currentVoice][s]; nothing
\* else a pass does (voice select, play or stop, gate expiry, step advance)
\* changes a cell.  A committed press of the select button moves currentVoice
\* to (currentVoice + 1) mod VOICE_COUNT, nothing else changes currentVoice,
\* and a pass that does nothing but commit a select press changes nothing else
\* of the sequencer.
C20_PatternFrame ==
  [][ IF last'.kind = "pass"
        THEN /\ currentVoice' = (IF instBtn \in last'.edges
                                   THEN (currentVoice + 1) % VOICE_COUNT
                                   ELSE currentVoice)
             /\ \A v \in Voices(variant) : \A st \in Steps :
                  pattern'[v][st] =
                    (IF v = currentVoice' /\ st \in last'.edges
                       THEN ~pattern[v][st] ELSE pattern[v][st])
             /\ (last'.edges = {instBtn} /\ ~last'.due /\ last'.expired = {}) =>
                  /\ pattern' = pattern
                  /\ isPlaying' = isPlaying
                  /\ stepIndex' = stepIndex
                  /\ nextStepAt' = nextStepAt
                  /\ noteActive' = noteActive
                  /\ noteOffAt' = noteOffAt
                  /\ emitted' = << >>
        ELSE pattern' = pattern /\ currentVoice' = currentVoice ]_vars

\* after a select press, a step press has set a cell of the second voice and
\* left the first voice's cells alone
C20_SecondVoiceEdited ==
  /\ last.kind = "pass"
  /\ last.edges = {0}
  /\ currentVoice = 1
  /\ pattern[1][0]
  /\ ~pattern[1][1]
  /\ pattern[0][0]
  /\ pattern[0][1]

-----------------------------------------------------------------------------
(* One step per pass, armed from the pass (C21) *)

\* What one pass does to the step cycle.  A pass plays at most one step: the
\* index moves on by one from the step played and the deadline is armed ahead
\* of the time of the pass, by the step interval in the fixed-tempo sketches
\* and by at least 1 ms and less than two intervals in the swing sketch.  A
\* step is played only once the deadline the sketch held is reached, unless
\* a play press committed in the same pass has set the deadline anew; two
\* passes in a row that both play a step are the armed interval apart at least.
\* A pass that plays no step and commits no play press leaves the index and
\* the deadline alone.
OneStepPerPass ==
  last'.kind = "pass" =>
    /\ stepEvents' = stepEvents + (IF last'.due THEN 1 ELSE 0)
    /\ last'.due =>
         /\ stepIndex' = (last'.stepPlayed + 1) % STEP_COUNT
         /\ nextStepAt' = AddMs(now', ArmedDelta')
         /\ IF FixedTempo(variant)
              THEN ArmedDelta' = stepIntervalMs'
              ELSE 1 <= ArmedDelta' /\ ArmedDelta' < 2 * stepIntervalMs'
         /\ playBtn \notin last'.edges =>
              /\ Int32NonNeg(SubU32(now', nextStepAt))
              /\ (last.kind = "pass" /\ last.due) =>
                   Clamp31(SubU32(now', now)) >= ArmedDelta
    /\ (~last'.due /\ playBtn \notin last'.edges) =>
         /\ stepIndex' = stepIndex
         /\ nextStepAt' = nextStepAt

\* C21: in every sketch one pass advances the step index at most once, however
\* late it comes, and arms the next deadline from its own time; so the step
\* event after a step event comes no sooner than the armed interval later, and
\* a late pass is followed by no burst of catch-up steps, also across a wrap
\* of millis().
C21_NoCatchUpBurst == [][OneStepPerPass]_vars

\* the statement of C21 for the three fixed-tempo sketches alone
C21_FixedTempoOnly == [][FixedTempo(variant) => OneStepPerPass]_vars

\* the case C21 fails in: the swing sketch plays a step before the deadline
\* that the step event before it armed across the wrap
C21_BurstAcrossWrap ==
  /\ variant = "swing"
  /\ last.kind = "pass"
  /\ last.due
  /\ playBtn \notin last.edges
  /\ stepEvents >= 3
  /\ last.stepDeadline.hi = 0
  /\ now.hi = Limb - 1
  /\ Clamp31(SubU32(last.stepDeadline, now)) > 1

\* a pass of a fixed-tempo sketch that comes more than a step interval after
\* the deadline has played one step and armed the next a full interval ahead
C21_LateStepOnce ==
  /\ FixedTempo(variant)
  /\ last.kind = "pass"
  /\ last.gap
  /\ last.due
  /\ Clamp31(SubU32(now, last.stepDeadline)) > stepIntervalMs
  /\ stepEvents = 1
  /\ stepIndex = 1
  /\ nextStepAt = AddMs(now, stepIntervalMs)

\* a late pass of a fixed-tempo sketch has played, after the wrap, the step
\* whose deadline lay before it
C21_LateAcrossWrap ==
  /\ FixedTempo(variant)
  /\ last.kind = "pass"
  /\ last.gap
  /\ last.due
  /\ last.stepDeadline.hi = Limb - 1
  /\ now.hi = 0
  /\ stepEvents = 1

\* a fixed-tempo sketch has played, after the wrap, the step that the step
\* event before the wrap armed
C21_StepAfterWrap ==
  /\ FixedTempo(variant)
  /\ last.kind = "pass"
  /\ last.due
  /\ stepEvents = 2
  /\ last.stepDeadline.hi = 0
  /\ now = last.stepDeadline

-----------------------------------------------------------------------------
(* The playback indicator of the DIN-MIDI sketch (C22) *)

\* C22: in the DIN-MIDI sketch a pass that plays a step inverts the level of
\* the indicator LED once, and only a playing engine plays one; a pass that
\* commits a press of the play button, starting or stopping, leaves it LOW;
\* no other pass changes it; so it is LOW whenever the engine is stopped.
C22_IndicatorFollowsSteps ==
  [][ variant = "midi" =>
        /\ ~isPlaying => txLed = LOW
        /\ ~isPlaying' => txLed' = LOW
        /\ IF last'.kind = "pass"
             THEN /\ last'.due => (isPlaying' /\ txLed' = ~txLed)
                  /\ playBtn \in last'.edges => txLed' = LOW
                  /\ (~last'.due /\ playBtn \notin last'.edges) => txLed' = txLed
             ELSE txLed' = txLed ]_vars

\* the DIN-MIDI sketch has been stopped after its first step, which had lit
\* the indicator
C22_StoppedWhileLit ==
  /\ variant = "midi"
  /\ Stopped
  /\ stepEvents = 1
  /\ txLed = LOW

\* the first step of the DIN-MIDI sketch has lit the indicator
C22_LitByStep ==
  /\ variant = "midi"
  /\ last.kind = "pass"
  /\ last.due
  /\ stepEvents = 1
  /\ txLed = HIGH

\* the second step of the DIN-MIDI sketch has put the indicator out again
C22_OutBySecondStep ==
  /\ variant = "midi"
  /\ last.kind = "pass"
  /\ last.due
  /\ stepEvents = 2
  /\ isPlaying
  /\ txLed = LOW

\* the DIN-MIDI sketch has been started again after a stop
C22_StartedAgain ==
  /\ variant = "midi"
  /\ last.kind = "pass"
  /\ ~last.wasPlaying
  /\ isPlaying
  /\ stepEvents = 1
  /\ txLed = LOW

-----------------------------------------------------------------------------
(* One button under any pattern of bounce (C23) *)

\* A fifth specification drives the debouncer of one button with a raw level
\* that flips at any time (a press, a release, or bounce) and is polled at any
\* spacing from HoldGaps, once also after a long hold; the button may be held
\* down at power-up.  `last' keeps what the last poll did and the record of
\* the edges:
\*   edges      polls that returned true so far
\*   sinceUp    of these, the ones since the stable level last went to HIGH
\*   sinceFlip  of these, the ones since the raw level last flipped
\*   ups        commits of HIGH so far
\*   stableAtFlip  the stable level when the raw level last flipped

MaxFlips    == 3     \* flips of the raw level in a behaviour
HoldHorizon == 70    \* ms over which the flips are followed
HoldGaps    == {0, 1, 9, 31}
LongGaps    == {100000}

\* the sketches driven: one with pollEdgeFalling and a setup() that reads the
\* level, and the swing sketch with pollFalling
HoldVariants == {"midi", "swing"}

HoldInit ==
  /\ variant \in HoldVariants
  /\ env \in {[name |-> "hold", pins |-> {b}] : b \in Clicked}
  /\ pin \in {AllHigh(variant)}
             \cup {[AllHigh(variant) EXCEPT ![b] = LOW] : b \in env.pins}
  /\ tempoRaw = 0
  /\ swingRaw = ADC_CENTER
  /\ InitProgram
  /\ elapsed = 0
  /\ moves = 0
  /\ lates = 0
  /\ waits = 0
  /\ emitted = << >>
  /\ balance = [v \in Voices(variant) |-> 0]
  /\ onAt = [v \in Voices(variant) |-> U32(0)]
  /\ prompt = [v \in Voices(variant) |-> TRUE]
  /\ stepEvents = 0
  /\ toggles = [v \in Voices(variant) |-> [s \in Steps |-> 0]]
  /\ \E b \in env.pins :
       last = [kind |-> "setup", returned |-> FALSE, stableWas |-> btn[b].stable,
               edges |-> 0, sinceUp |-> 0, sinceFlip |-> 0, ups |-> 0,
               stableAtFlip |-> btn[b].stable, readWas |-> btn[b].lastRead,
               seenAt |-> U32(0), long |-> FALSE]

\* everything but the button, the clock and the record of the edges
HoldRest ==
  << variant, env, tempoRaw, swingRaw, pattern, currentVoice, isPlaying,
     stepIndex, stepIntervalMs, nextStepAt, noteActive, noteOffAt, txLed,
     stepLed, lates, waits, emitted, balance, onAt, prompt, stepEvents,
     toggles >>

\* pollFalling / pollEdgeFalling called for the button at time t; long tells
\* that the poll comes a long time after the last one
HoldPollAt(t, long) ==
  \E b \in env.pins :
    LET ret  == PollEdge(btn[b], pin[b], t, Debounce(b))
        nb   == PollBtn(btn[b], pin[b], t, Debounce(b))
        up   == btn[b].stable = LOW /\ nb.stable = HIGH
        one  == IF ret THEN 1 ELSE 0
    IN  /\ now' = t
        /\ btn' = [btn EXCEPT ![b] = nb]
        /\ last' = [last EXCEPT
                      !.kind      = "poll",
                      !.returned  = ret,
                      !.stableWas = btn[b].stable,
                      !.edges     = @ + one,
                      !.sinceUp   = (IF up THEN 0 ELSE @) + one,
                      !.sinceFlip = @ + one,
                      !.ups       = @ + (IF up THEN 1 ELSE 0),
                      !.seenAt    = IF pin[b] # last.readWas THEN t ELSE @,
                      !.readWas   = pin[b],
                      !.long      = @ \/ long]
        /\ UNCHANGED << pin, moves, HoldRest >>

\* a poll dt ms after the last one
HoldPoll(dt) ==
  /\ elapsed + dt <= HoldHorizon
  /\ elapsed' = elapsed + dt
  /\ HoldPollAt(AddMs(now, dt), FALSE)

\* the one poll that comes a long time after the last one, the button held
\* down all the while
LongPoll(dt) ==
  /\ ~last.long
  /\ last.kind = "poll"
  /\ \A b \in env.pins : pin[b] = LOW
  /\ elapsed' = elapsed
  /\ HoldPollAt(AddMs(now, dt), TRUE)

\* the raw level of the button flips
Flip ==
  \E b \in env.pins :
    /\ moves < MaxFlips
    /\ moves' = moves + 1
    /\ pin' = [pin EXCEPT ![b] = ~pin[b]]
    /\ last' = [last EXCEPT !.kind = "flip", !.returned = FALSE, !.sinceFlip = 0,
                            !.stableAtFlip = btn[b].stable]
    /\ UNCHANGED << now, btn, elapsed, HoldRest >>

HoldNext ==
  \/ \E dt \in HoldGaps : HoldPoll(dt)
  \/ \E dt \in LongGaps : LongPoll(dt)
  \/ Flip

HoldSpec == HoldInit /\ [][HoldNext]_vars

\* the polls have read LOW for longer than the window of button b, the raw
\* level having stayed LOW
HeldDown(b) ==
  /\ pin[b] = LOW
  /\ last.kind = "poll"
  /\ last.readWas = LOW
  /\ GtMs(SubU32(now, last.seenAt), Debounce(b))

\* C23: the debouncer returns true only at a poll that commits the stable level
\* from HIGH to LOW; a poll that commits HIGH returns false; between two polls
\* that return true the stable level has been committed back to HIGH; so while
\* the raw level stays LOW at most one poll returns true, and exactly one when
\* the level was stable HIGH before and the hold is polled past the window,
\* whatever the spacing of the polls and the flips of the raw level before.
C23_OneEdgePerHold ==
  \A b \in env.pins :
    /\ last.kind = "poll" =>
         /\ last.returned => (last.stableWas = HIGH /\ btn[b].stable = LOW)
         /\ (last.stableWas = LOW /\ btn[b].stable = HIGH) => ~last.returned
    /\ last.sinceUp <= 1
    /\ last.edges <= last.ups + 1
    /\ last.sinceFlip <= 1
    /\ HeldDown(b) =>
         /\ btn[b].stable = LOW
         /\ last.stableAtFlip = HIGH => last.sinceFlip = 1

\* a press with bounce has been reported once, and the button, held down, has
\* been polled again a long time later
C23_HeldLong ==
  /\ \A b \in env.pins : HeldDown(b)
  /\ last.long
  /\ moves >= 3
  /\ last.edges = 1
  /\ last.sinceFlip = 1
  /\ now.hi > 0

\* a second press has been reported, after the release of the first was committed
C23_PressedAgain ==
  /\ last.kind = "poll"
  /\ last.returned
  /\ last.edges = 2
  /\ last.ups >= 1

\* a button held down at power-up and never released has reported no edge in a
\* fixed-tempo sketch, whose setup() reads the level, and one in the swing
\* sketch, which takes the level for HIGH
C23_HeldAtPowerUp ==
  /\ \A b \in env.pins : HeldDown(b)
  /\ moves = 0
  /\ last.edges = (IF variant = "swing" THEN 1 ELSE 0)

====
